---- MODULE Spec2Model ----
(***************************************************************************)
(* Methane-number estimation of dvulin/gas_quality, calc/methane_number.py *)
(* (EN 16726:2015 Annex A, AVL method).                                    *)
(*                                                                         *)
(* Number encoding.  Python floats are modelled by exact fixed-point       *)
(* integers:                                                               *)
(*   - a mole fraction is a whole number of 1/FracDen (1e-4); every input  *)
(*     fraction is a multiple of 10 units, so the factors 2.3 and 5.3 of   *)
(*     the butane conversion stay exact;                                   *)
(*   - a grid value of the Mnemo axes is a whole number of tenths;         *)
(*   - a quotient (Mnemo_B, Mnemo_C, the A20 percentages) is a record      *)
(*     [num, den] with den > 0, compared by cross-multiplication;          *)
(*   - a methane number is a record [hi, lo] of value                      *)
(*     hi / MnDen + lo / (MnDen * LoDen), 0 <= lo < LoDen.                 *)
(* Floating-point rounding is not modelled.                                *)
(***************************************************************************)
EXTENDS Integers, FiniteSets, Sequences, TLC

VARIABLES
    pc,                 \* position inside the call
    composition,        \* the caller's mapping, species -> fraction
    normalized,         \* estimate_methane_number: normalized
    group_a, group_b, group_c,
    warned,             \* components a UserWarning was emitted for
    group_b_simplified,
    sum_b, sum_c,
    mnemo_b, mnemo_c,   \* quotients [num, den]
    idx_b, idx_c,       \* 0-based grid indices chosen by _get_tmn
    tmn_value,
    mn_prime,
    mn_inerts,          \* [isNone, val]
    calls,              \* helper functions the call has entered
    range_warning,      \* the "outside expected range" warning was emitted
    outcome,            \* [kind, value]: "return" n | "ValueError" | "TypeError"
    args,               \* arguments of a call to one of the other calc functions
    result,             \* what that call returned or raised
    objects,            \* concurrent callers: << owner, name >> -> contents
    frames              \* concurrent callers: caller -> position and scalars

vars == << pc, composition, normalized, group_a, group_b, group_c, warned,
           group_b_simplified, sum_b, sum_c, mnemo_b, mnemo_c, idx_b, idx_c,
           tmn_value, mn_prime, mn_inerts, calls, range_warning, outcome,
           args, result, objects, frames >>

(***************************************************************************)
(* Encoding denominators and model bounds                                  *)
(***************************************************************************)
FracDen == 10 ^ 4       \* fraction unit: 1e-4
GridDen == 10           \* axis grid unit: one tenth (0.0, 0.1, ..., 1.0)
MnDen == 10 ^ 4         \* methane-number unit of hi: 1e-4
LoDen == 10 ^ 8         \* lo counts 1 / (MnDen * LoDen)

MaxExtra == 2           \* species set or overridden on top of a base example
MaxFrac == 2            \* largest override fraction, in steps of FracStep
FracStep == 60          \* 0.006, the isomer fraction of the docstring example

(***************************************************************************)
(* Module-level tables of calc/methane_number.py                           *)
(***************************************************************************)
GROUP_A == {"CH4", "C2H6"}

GROUP_B == {"C3H8", "C4H10"}

GROUP_C_COMPONENTS ==
    {"C5H12", "C6H14", "C7plus", "N2", "CO2", "H2S", "H2O", "H2",
     "CO", "C2H4", "C3H6", "C4H6", "C4H8"}

ALLOWED_COMPONENTS == GROUP_A \cup GROUP_B \cup GROUP_C_COMPONENTS

IGNORED_COMPONENTS == {"O2"}

COMPONENT_ALIASES ==
    ("iC4H10" :> "C4H10") @@ ("nC4H10" :> "C4H10") @@
    ("iC5H12" :> "C5H12") @@ ("nC5H12" :> "C5H12") @@
    ("C6+" :> "C6H14") @@ ("hexanes+" :> "C6H14")

\* the table with butane counted as three carbon atoms
CARBON_ATOMS_butane_3 ==
    ("CH4" :> 1) @@ ("C2H6" :> 2) @@ ("C3H8" :> 3) @@ ("C4H10" :> 3) @@
    ("C5H12" :> 5) @@ ("C6H14" :> 6) @@ ("C7plus" :> 7) @@
    ("CO" :> 1) @@ ("C2H4" :> 2) @@ ("C3H6" :> 3) @@ ("C4H6" :> 4) @@
    ("C4H8" :> 4) @@
    ("N2" :> 0) @@ ("CO2" :> 1) @@ ("H2S" :> 0) @@ ("H2O" :> 0) @@ ("H2" :> 0)

CARBON_ATOMS ==
    ("CH4" :> 1) @@ ("C2H6" :> 2) @@ ("C3H8" :> 3) @@ ("C4H10" :> 4) @@
    ("C5H12" :> 5) @@ ("C6H14" :> 6) @@ ("C7plus" :> 7) @@
    ("CO" :> 1) @@ ("C2H4" :> 2) @@ ("C3H6" :> 3) @@ ("C4H6" :> 4) @@
    ("C4H8" :> 4) @@
    ("N2" :> 0) @@ ("CO2" :> 1) @@ ("H2S" :> 0) @@ ("H2O" :> 0) @@ ("H2" :> 0)

\* Table values in units of 1e-4; rows Mnemo_B, columns Mnemo_C.
TMN_TABLE ==
    << << 1000000, 1000000, 1000000, 1000000, 1000000, 1000000, 1000000,
          1000000, 1000000, 1000000, 1000000 >>,
       << 1000000, 964277, 928554, 892831, 857108, 821385, 785662, 749939,
          714216, 678493, 642770 >>,
       << 1000000, 1000000, 964277, 928554, 892831, 857108, 821385, 785662,
          749939, 714216, 678493 >>,
       << 1000000, 1000000, 1000000, 964277, 928554, 892831, 857108, 821385,
          785662, 749939, 714216 >> >>

\* Axis values in tenths.
MNEMO_B_VALUES == << 10, 20, 30, 40 >>

MNEMO_C_VALUES == << 0, 1, 2, 3, 4, 5, 6, 7, 8, 9, 10 >>

(***************************************************************************)
(* Python values                                                           *)
(***************************************************************************)
EmptyDict == [k \in {} |-> 0]

NoneValue == [isNone |-> TRUE, val |-> 0]

Float(v) == [isNone |-> FALSE, val |-> v]

Quot(n, d) == [num |-> n, den |-> d]

Mn(h, l) == [hi |-> h, lo |-> l]

Abs(x) == IF x < 0 THEN -x ELSE x

\* dict.get(k, default)
Get(d, k, default) == IF k \in DOMAIN d THEN d[k] ELSE default

\* sum(d[k] for k in S)
RECURSIVE SumValues(_, _)
SumValues(d, S) ==
    IF S = {} THEN 0
    ELSE LET k == CHOOSE x \in S : TRUE
         IN  d[k] + SumValues(d, S \ {k})

\* sum(d[k] * w[k] for k in S)
RECURSIVE SumWeighted(_, _, _)
SumWeighted(d, w, S) ==
    IF S = {} THEN 0
    ELSE LET k == CHOOSE x \in S : TRUE
         IN  d[k] * w[k] + SumWeighted(d, w, S \ {k})

\* A fraction is a whole number of 1e-4, so it exceeds the code's epsilons
\* (1e-6 for the group sums, 1e-9 for the nitrogen-free total) exactly when
\* it is positive.
ExceedsEpsilon(x) == x > 0

(***************************************************************************)
(* Exact arithmetic on methane numbers                                     *)
(***************************************************************************)
\* y_b * y_c * tmn for w = y_b * y_c (units 1e-8) and the table value t
\* (units 1e-4): the product w * t / LoDen, split in limbs so that no
\* intermediate leaves the 32-bit range.
MulMn(w, t) ==
    LET w1 == w \div 10000
        w0 == w % 10000
        t1 == t \div 1000
        t0 == t % 1000
        a == w1 * t1
        b == w1 * t0
        c == w0 * t1
        d == w0 * t0
        rest == 10000000 * (a % 10) + 10000 * (b % 10000)
                + 1000 * (c % 100000) + d
    IN  Mn((a \div 10) + (b \div 10000) + (c \div 100000) + (rest \div LoDen),
           rest % LoDen)

AddMn(p, q) ==
    Mn(p.hi + q.hi + ((p.lo + q.lo) \div LoDen), (p.lo + q.lo) % LoDen)

\* p < n, p > n for a whole methane number n
MnLess(p, n) == p.hi < n * MnDen

MnGreater(p, n) == p.hi > n * MnDen \/ (p.hi = n * MnDen /\ p.lo > 0)

\* max(0.0, min(100.0, mn))
Clamp(p) ==
    IF MnGreater(p, 100) THEN Mn(100 * MnDen, 0)
    ELSE IF MnLess(p, 0) THEN Mn(0, 0)
    ELSE p

\* round(mn, 0) of a clamped value: nearest whole number, ties to even
Round0(p) ==
    LET n == p.hi \div MnDen
        r == p.hi % MnDen
        half == MnDen \div 2
    IN  IF r > half \/ (r = half /\ p.lo > 0) THEN n + 1
        ELSE IF r < half THEN n
        ELSE IF n % 2 = 0 THEN n ELSE n + 1

(***************************************************************************)
(* _normalize_composition                                                  *)
(***************************************************************************)
\* COMPONENT_ALIASES.get(component, component)
StdComponent(component) == Get(COMPONENT_ALIASES, component, component)

\* the mapping taken as it is, aliases not merged
normalize_without_folding(comp) == comp

_normalize_composition(comp) ==
    [s \in {StdComponent(c) : c \in DOMAIN comp} |->
        SumValues(comp, {c \in DOMAIN comp : StdComponent(c) = s})]

(***************************************************************************)
(* _simplify_composition                                                   *)
(***************************************************************************)
\* One conversion step: pop `component` when present and positive and add
\* factor10 / 10 times its fraction to the C4H10 bucket.
ToButane(simplified, component, factor10) ==
    IF component \in DOMAIN simplified /\ simplified[component] > 0
    THEN [k \in (DOMAIN simplified \ {component}) \cup {"C4H10"} |->
            IF k = "C4H10"
            THEN Get(simplified, "C4H10", 0)
                 + (simplified[component] * factor10) \div 10
            ELSE simplified[k]]
    ELSE simplified

_simplify_composition(comp) ==
    LET s1 == ToButane(comp, "C4H6", 10)
        s2 == ToButane(s1, "C4H8", 10)
        s3 == ToButane(s2, "C5H12", 23)
        s4 == ToButane(s3, "C6H14", 53)
    IN  ToButane(s4, "C7plus", 53)

(***************************************************************************)
(* _find_closest_index, _get_tmn                                           *)
(***************************************************************************)
\* abs(v - value), as a numerator over GridDen * value.den
Diff(v, value) == Abs(v * value.den - GridDen * value.num)

\* the for loop of _find_closest_index from (1-based) position i on
RECURSIVE ClosestLoop(_, _, _, _, _)
ClosestLoop(i, closest_idx, min_diff, value, value_list) ==
    IF i > Len(value_list) THEN closest_idx
    ELSE LET diff == Diff(value_list[i], value)
         IN  IF diff < min_diff
             THEN ClosestLoop(i + 1, i - 1, diff, value, value_list)
             ELSE ClosestLoop(i + 1, closest_idx, min_diff, value, value_list)

\* the same loop keeping the last of several closest values
RECURSIVE ClosestLoopLastTie(_, _, _, _, _)
ClosestLoopLastTie(i, closest_idx, min_diff, value, value_list) ==
    IF i > Len(value_list) THEN closest_idx
    ELSE LET diff == Diff(value_list[i], value)
         IN  IF diff <= min_diff
             THEN ClosestLoopLastTie(i + 1, i - 1, diff, value, value_list)
             ELSE ClosestLoopLastTie(i + 1, closest_idx, min_diff, value,
                                     value_list)

find_closest_index_last_tie(value, value_list) ==
    ClosestLoopLastTie(1, 0, Diff(value_list[1], value), value, value_list)

\* 0-based index of the closest value
_find_closest_index(value, value_list) ==
    ClosestLoop(1, 0, Diff(value_list[1], value), value, value_list)

Max(a, b) == IF a > b THEN a ELSE b

Min(a, b) == IF a < b THEN a ELSE b

\* idx_b, idx_c of _get_tmn after the constraint to the table bounds
TmnIndexB(mb) ==
    Max(0, Min(_find_closest_index(mb, MNEMO_B_VALUES), Len(TMN_TABLE) - 1))

\* TmnIndexC with the column index held to the number of rows
TmnIndexC_row_count(mc) ==
    Max(0, Min(_find_closest_index(mc, MNEMO_C_VALUES), Len(TMN_TABLE) - 1))

TmnIndexC(mc) ==
    Max(0, Min(_find_closest_index(mc, MNEMO_C_VALUES), Len(TMN_TABLE[1]) - 1))

_get_tmn(mb, mc) == TMN_TABLE[TmnIndexB(mb) + 1][TmnIndexC(mc) + 1]

(***************************************************************************)
(* _calculate_mn_a20, _correct_for_inerts                                  *)
(***************************************************************************)
\* The def statement on line 1 has the module docstring as its whole body:
\* the function returns None for every argument.  The polynomial below
\* `return mn_inerts` sits inside _correct_for_inerts and is never reached.
_calculate_mn_a20(x_ch4, y_co2) == NoneValue

inert_components == {"N2", "CO2", "H2O", "O2"}

SumCombustibles(composition_original) ==
    SumValues(composition_original,
              {k \in DOMAIN composition_original :
                  k \notin inert_components /\ composition_original[k] > 0})

\* sum_all - n2
NitrogenFree(composition_original) ==
    LET n2 == Get(composition_original, "N2", 0)
        co2 == Get(composition_original, "CO2", 0)
        sum_all == SumCombustibles(composition_original) + n2 + co2
    IN  sum_all - n2

x_ch4_pct(composition_original) ==
    Quot(SumCombustibles(composition_original) * 100,
         NitrogenFree(composition_original))

y_co2_pct(composition_original) ==
    Quot(Get(composition_original, "CO2", 0) * 100,
         NitrogenFree(composition_original))

_correct_for_inerts(composition_original) ==
    IF ExceedsEpsilon(NitrogenFree(composition_original))
    THEN _calculate_mn_a20(x_ch4_pct(composition_original),
                           y_co2_pct(composition_original))
    ELSE Float(100 * MnDen)

(***************************************************************************)
(* estimate_methane_number, stage by stage                                 *)
(***************************************************************************)
Raised(kind) == [kind |-> kind, value |-> -1]

Returned(v) == [kind |-> "return", value |-> v]

Pending == [kind |-> "pending", value |-> -1]

\* components of the validation loop with a negative fraction (ValueError)
NegativeComponents(norm) == {c \in DOMAIN norm : norm[c] < 0}

\* components that pass the zero test and the IGNORED_COMPONENTS test
Considered(norm) ==
    {c \in DOMAIN norm : norm[c] # 0 /\ c \notin IGNORED_COMPONENTS}

\* components the loop warns about and skips
UnrecognizedComponents(norm) ==
    {c \in Considered(norm) : c \notin ALLOWED_COMPONENTS}

Grouped(norm, members) ==
    [c \in {x \in Considered(norm) :
                x \in ALLOWED_COMPONENTS /\ x \in members} |-> norm[c]]

GroupA(norm) == Grouped(norm, GROUP_A)

GroupB(norm) == Grouped(norm, GROUP_B \ GROUP_A)

GroupC(norm) == Grouped(norm, ALLOWED_COMPONENTS \ (GROUP_A \cup GROUP_B))

\* {k: v for k, v in _simplify_composition({**group_a, **group_b}).items()
\*  if k in GROUP_B}
GroupBSimplified(ga, gb) ==
    LET simplified_b == _simplify_composition(ga @@ gb)
    IN  [k \in DOMAIN simplified_b \cap GROUP_B |-> simplified_b[k]]

SumOf(g) == SumValues(g, DOMAIN g)

MnemoOf(g) == Quot(SumWeighted(g, CARBON_ATOMS, DOMAIN g), SumOf(g))

\* the double loop with one lookup per pair, at the carbon numbers of the
\* pair's own species
RECURSIVE TotalMnLoop_lookup_per_pair(_, _, _, _, _, _)
TotalMnLoop_lookup_per_pair(pairs, total_mn, gb, gc, mb, mc) ==
    IF pairs = {} THEN total_mn
    ELSE LET p == CHOOSE x \in pairs : TRUE
             tmn == _get_tmn(Quot(CARBON_ATOMS[p[1]], 1),
                             Quot(CARBON_ATOMS[p[2]], 1))
         IN  TotalMnLoop_lookup_per_pair(
                 pairs \ {p},
                 AddMn(total_mn, MulMn(gb[p[1]] * gc[p[2]], tmn)),
                 gb, gc, mb, mc)

\* the double loop over group_b_simplified x group_c
RECURSIVE TotalMnLoop(_, _, _, _, _, _)
TotalMnLoop(pairs, total_mn, gb, gc, mb, mc) ==
    IF pairs = {} THEN total_mn
    ELSE LET p == CHOOSE x \in pairs : TRUE
             tmn == _get_tmn(mb, mc)
         IN  TotalMnLoop(pairs \ {p},
                         AddMn(total_mn, MulMn(gb[p[1]] * gc[p[2]], tmn)),
                         gb, gc, mb, mc)

\* the table taken as soon as one of the two groups is populated
FullTable_either_group(gb, gc) ==
    ExceedsEpsilon(SumOf(gb)) \/ ExceedsEpsilon(SumOf(gc))

FullTable(gb, gc) == ExceedsEpsilon(SumOf(gb)) /\ ExceedsEpsilon(SumOf(gc))

MnPrime(gb, gc) ==
    IF FullTable(gb, gc)
    THEN TotalMnLoop((DOMAIN gb) \X (DOMAIN gc), Mn(0, 0), gb, gc,
                     MnemoOf(gb), MnemoOf(gc))
    ELSE Mn(100 * MnDen, 0)

\* mn_prime + mn_inerts - 100.0003
Combined(mp, mi) == Mn(mp.hi + mi.val - 1000003, mp.lo)

OutsideExpectedRange(mn) == MnLess(mn, 0) \/ MnGreater(mn, 105)

\* Steps 5 and on: float + None raises TypeError
Finish(mp, mi) ==
    IF mi.isNone THEN Raised("TypeError")
    ELSE Returned(Round0(Clamp(Combined(mp, mi))))

\* the whole call, as the outcome it ends in
estimate_methane_number(comp) ==
    LET norm == _normalize_composition(comp)
    IN  IF NegativeComponents(norm) # {} THEN Raised("ValueError")
        ELSE Finish(MnPrime(GroupBSimplified(GroupA(norm), GroupB(norm)),
                            GroupC(norm)),
                    _correct_for_inerts(comp))

(***************************************************************************)
(* Inputs                                                                  *)
(***************************************************************************)
\* a species outside the vocabulary of the module
Foreign == "Ar"

Tokens ==
    ALLOWED_COMPONENTS \cup IGNORED_COMPONENTS \cup DOMAIN COMPONENT_ALIASES
    \cup {Foreign}

\* Example 1 of the docstring of estimate_methane_number
Example1 ==
    ("CH4" :> 8500) @@ ("C2H6" :> 600) @@ ("C3H8" :> 300) @@
    ("iC4H10" :> 60) @@ ("nC4H10" :> 60) @@ ("N2" :> 300) @@ ("CO2" :> 120)

\* the same gas with the butane isomers given as C4H10
Example1Folded ==
    ("CH4" :> 8500) @@ ("C2H6" :> 600) @@ ("C3H8" :> 300) @@
    ("C4H10" :> 120) @@ ("N2" :> 300) @@ ("CO2" :> 120)

\* Example 2 of the docstring
Example2 ==
    ("CH4" :> 8000) @@ ("C2H6" :> 500) @@ ("C3H8" :> 200) @@
    ("C4H10" :> 200) @@ ("H2" :> 500) @@ ("N2" :> 300) @@ ("CO2" :> 300)

PureMethane == ("CH4" :> FracDen)

BaseCompositions ==
    {EmptyDict, PureMethane, Example1, Example1Folded, Example2}

\* The species an input sets or overrides on top of a base example: every
\* alias, both members of groups A and B, and of group C a heavier
\* hydrocarbon of each alias family, a butane-like combustible and the three
\* inerts of the correction, the ignored O2 and a foreign species.  The
\* other tokens of the vocabulary enter through the base examples.
OverrideTokens ==
    GROUP_A \cup GROUP_B \cup DOMAIN COMPONENT_ALIASES
    \cup {"C5H12", "C6H14", "C4H8", "N2", "CO2", "H2O"}
    \cup IGNORED_COMPONENTS \cup {Foreign}

\* the sets of at most n override species
RECURSIVE KeySets(_)
KeySets(n) ==
    IF n = 0 THEN {{}}
    ELSE LET prev == KeySets(n - 1)
         IN  prev \cup {S \cup {t} : S \in prev, t \in OverrideTokens}

FracValues == {FracStep * k : k \in -1 .. MaxFrac}

Override(base, ov) ==
    [k \in DOMAIN base \cup DOMAIN ov |->
        IF k \in DOMAIN ov THEN ov[k] ELSE base[k]]

Compositions ==
    {Override(base, ov) :
        base \in BaseCompositions,
        ov \in UNION {[S -> FracValues] : S \in KeySets(MaxExtra)}}

(***************************************************************************)
(* The call as a state machine                                             *)
(***************************************************************************)
Locals0 ==
    /\ normalized = EmptyDict
    /\ group_a = EmptyDict
    /\ group_b = EmptyDict
    /\ group_c = EmptyDict
    /\ warned = {}
    /\ group_b_simplified = EmptyDict
    /\ sum_b = 0
    /\ sum_c = 0
    /\ idx_b = 0
    /\ idx_c = 0
    /\ tmn_value = 0
    /\ mn_prime = Mn(0, 0)
    /\ mn_inerts = Float(0)
    /\ calls = {}
    /\ range_warning = FALSE
    /\ outcome = Pending

\* a single call: no objects shared with other callers
NoCallers ==
    /\ objects = << >>
    /\ frames = << >>

\* no call to the other calc functions is in progress
NoCall ==
    /\ args = << >>
    /\ result = Pending

Init ==
    /\ pc = "start"
    /\ composition \in Compositions
    /\ mnemo_b = Quot(0, 1)
    /\ mnemo_c = Quot(0, 1)
    /\ Locals0
    /\ NoCallers
    /\ NoCall

\* step 1
Normalize ==
    /\ pc = "start"
    /\ normalized' = _normalize_composition(composition)
    /\ calls' = calls \cup {"_normalize_composition"}
    /\ pc' = "normalized"
    /\ UNCHANGED << objects, frames,
                    args, result, composition, group_a, group_b, group_c, warned,
                    group_b_simplified, sum_b, sum_c, mnemo_b, mnemo_c,
                    idx_b, idx_c, tmn_value, mn_prime, mn_inerts,
                    range_warning, outcome >>

\* step 2, a negative fraction: the warnings emitted before the raise are
\* those of the unrecognized components the mapping lists first
GroupRaise ==
    /\ pc = "normalized"
    /\ NegativeComponents(normalized) # {}
    /\ warned' \in SUBSET UnrecognizedComponents(normalized)
    /\ outcome' = Raised("ValueError")
    /\ pc' = "done"
    /\ UNCHANGED << objects, frames,
                    args, result, composition, normalized, group_a, group_b, group_c,
                    group_b_simplified, sum_b, sum_c, mnemo_b, mnemo_c,
                    idx_b, idx_c, tmn_value, mn_prime, mn_inerts, calls,
                    range_warning >>

\* step 2, no negative fraction
Group ==
    /\ pc = "normalized"
    /\ NegativeComponents(normalized) = {}
    /\ group_a' = GroupA(normalized)
    /\ group_b' = GroupB(normalized)
    /\ group_c' = GroupC(normalized)
    /\ warned' = UnrecognizedComponents(normalized)
    /\ pc' = "grouped"
    /\ UNCHANGED << objects, frames,
                    args, result, composition, normalized, group_b_simplified, sum_b,
                    sum_c, mnemo_b, mnemo_c, idx_b, idx_c, tmn_value,
                    mn_prime, mn_inerts, calls, range_warning, outcome >>

\* step 3 and the sums of step 4
Simplify ==
    /\ pc = "grouped"
    /\ group_b_simplified' = GroupBSimplified(group_a, group_b)
    /\ sum_b' = SumOf(group_b_simplified')
    /\ sum_c' = SumOf(group_c)
    /\ calls' = calls \cup {"_simplify_composition"}
    /\ pc' = "simplified"
    /\ UNCHANGED << objects, frames,
                    args, result, composition, normalized, group_a, group_b, group_c,
                    warned, mnemo_b, mnemo_c, idx_b, idx_c, tmn_value,
                    mn_prime, mn_inerts, range_warning, outcome >>

\* step 4, both groups populated
TableTerm ==
    /\ pc = "simplified"
    /\ ExceedsEpsilon(sum_b) /\ ExceedsEpsilon(sum_c)
    /\ mnemo_b' = MnemoOf(group_b_simplified)
    /\ mnemo_c' = MnemoOf(group_c)
    /\ idx_b' = TmnIndexB(mnemo_b')
    /\ idx_c' = TmnIndexC(mnemo_c')
    /\ tmn_value' = _get_tmn(mnemo_b', mnemo_c')
    /\ mn_prime' = MnPrime(group_b_simplified, group_c)
    /\ calls' = calls \cup {"_get_tmn"}
    /\ pc' = "mn_prime"
    /\ UNCHANGED << objects, frames,
                    args, result, composition, normalized, group_a, group_b, group_c,
                    warned, group_b_simplified, sum_b, sum_c, mn_inerts,
                    range_warning, outcome >>

\* step 4, a group missing
MissingGroup ==
    /\ pc = "simplified"
    /\ ~ (ExceedsEpsilon(sum_b) /\ ExceedsEpsilon(sum_c))
    /\ mn_prime' = MnPrime(group_b_simplified, group_c)
    /\ pc' = "mn_prime"
    /\ UNCHANGED << objects, frames,
                    args, result, composition, normalized, group_a, group_b, group_c,
                    warned, group_b_simplified, sum_b, sum_c, mnemo_b,
                    mnemo_c, idx_b, idx_c, tmn_value, mn_inerts, calls,
                    range_warning, outcome >>

\* step 5
CorrectForInerts ==
    /\ pc = "mn_prime"
    /\ mn_inerts' = _correct_for_inerts(composition)
    /\ calls' = calls \cup {"_correct_for_inerts"}
                \cup (IF ExceedsEpsilon(NitrogenFree(composition))
                      THEN {"_calculate_mn_a20"} ELSE {})
    /\ pc' = "inerts"
    /\ UNCHANGED << objects, frames,
                    args, result, composition, normalized, group_a, group_b, group_c,
                    warned, group_b_simplified, sum_b, sum_c, mnemo_b,
                    mnemo_c, idx_b, idx_c, tmn_value, mn_prime,
                    range_warning, outcome >>

\* mn = mn_prime + mn_inerts - mn_methane with mn_inerts None
RaiseTypeError ==
    /\ pc = "inerts"
    /\ mn_inerts.isNone
    /\ outcome' = Finish(mn_prime, mn_inerts)
    /\ pc' = "done"
    /\ UNCHANGED << objects, frames,
                    args, result, composition, normalized, group_a, group_b, group_c,
                    warned, group_b_simplified, sum_b, sum_c, mnemo_b,
                    mnemo_c, idx_b, idx_c, tmn_value, mn_prime, mn_inerts,
                    calls, range_warning >>

\* the final formula, the range warning, clamp and round
Return ==
    /\ pc = "inerts"
    /\ ~ mn_inerts.isNone
    /\ range_warning' = OutsideExpectedRange(Combined(mn_prime, mn_inerts))
    /\ outcome' = Finish(mn_prime, mn_inerts)
    /\ pc' = "done"
    /\ UNCHANGED << objects, frames,
                    args, result, composition, normalized, group_a, group_b, group_c,
                    warned, group_b_simplified, sum_b, sum_c, mnemo_b,
                    mnemo_c, idx_b, idx_c, tmn_value, mn_prime, mn_inerts,
                    calls >>

Next ==
    \/ Normalize
    \/ GroupRaise
    \/ Group
    \/ Simplify
    \/ TableTerm
    \/ MissingGroup
    \/ CorrectForInerts
    \/ RaiseTypeError
    \/ Return

Spec == Init /\ [][Next]_vars

(***************************************************************************)
(* _get_tmn on its own: queries on and around the grid                     *)
(***************************************************************************)
QueryDen == 2 * GridDen

QueryMargin == 5        \* tenths beyond the first and last grid value

Queries(value_list) ==
    {Quot(n, QueryDen) :
        n \in 2 * (value_list[1] - QueryMargin)
              .. 2 * (value_list[Len(value_list)] + QueryMargin)}

InitLookup ==
    /\ pc = "query"
    /\ composition = EmptyDict
    /\ mnemo_b \in Queries(MNEMO_B_VALUES)
    /\ mnemo_c \in Queries(MNEMO_C_VALUES)
    /\ Locals0
    /\ NoCallers
    /\ NoCall

GetTmn ==
    /\ pc = "query"
    /\ idx_b' = TmnIndexB(mnemo_b)
    /\ idx_c' = TmnIndexC(mnemo_c)
    /\ tmn_value' = _get_tmn(mnemo_b, mnemo_c)
    /\ calls' = calls \cup {"_get_tmn"}
    /\ pc' = "looked_up"
    /\ UNCHANGED << objects, frames,
                    args, result, composition, normalized, group_a, group_b, group_c,
                    warned, group_b_simplified, sum_b, sum_c, mnemo_b,
                    mnemo_c, mn_prime, mn_inerts, range_warning, outcome >>

NextLookup == GetTmn

SpecLookup == InitLookup /\ [][NextLookup]_vars

(***************************************************************************)
(* Properties of estimate_methane_number                                   *)
(***************************************************************************)
Done == pc = "done"

\* a species the vocabulary knows, under its own name or an alias
Recognized(k) == StdComponent(k) \in ALLOWED_COMPONENTS

NoNegative(comp) == \A k \in DOMAIN comp : comp[k] >= 0

ValidComposition(comp) ==
    /\ NoNegative(comp)
    /\ \E k \in DOMAIN comp : Recognized(k) /\ comp[k] > 0

\* C1: for every composition whose fractions are all non-negative and that
\* holds a recognized species with a positive fraction, the call returns a
\* number m with 0 <= m <= 100; it neither raises nor returns a non-number.
MnInRange ==
    (Done /\ ValidComposition(composition))
        => (outcome.kind = "return" /\ outcome.value \in 0 .. 100)

\* groups B and C empty and CH4 more than 0.99 of group A
PureMethaneShape(comp) ==
    LET norm == _normalize_composition(comp)
        ga == GroupA(norm)
    IN  /\ NegativeComponents(norm) = {}
        /\ DOMAIN GroupB(norm) = {}
        /\ DOMAIN GroupC(norm) = {}
        /\ "CH4" \in DOMAIN ga
        /\ 100 * ga["CH4"] > 99 * SumOf(ga)

\* C2: a composition of pure-methane shape, {"CH4": 1.0} among them, makes
\* the call return exactly 100.0 directly, without the TMN lookup and
\* without the inert correction.
PureMethaneReturns100 ==
    (Done /\ PureMethaneShape(composition))
        => /\ outcome = Returned(100)
           /\ "_get_tmn" \notin calls
           /\ "_correct_for_inerts" \notin calls

\* C3: the call with an empty composition raises a validation failure and
\* never returns a number.
EmptyCompositionRaises ==
    (Done /\ DOMAIN composition = {}) => outcome.kind = "ValueError"

\* the alias pairs of one canonical species
AliasPairs ==
    {p \in (DOMAIN COMPONENT_ALIASES) \X (DOMAIN COMPONENT_ALIASES) :
        p[1] # p[2] /\ COMPONENT_ALIASES[p[1]] = COMPONENT_ALIASES[p[2]]}

\* {x: a, y: b, ...} with a, b >= 0 and the canonical key absent
FoldablePair(comp, p) ==
    /\ p[1] \in DOMAIN comp /\ p[2] \in DOMAIN comp
    /\ COMPONENT_ALIASES[p[1]] \notin DOMAIN comp
    /\ comp[p[1]] >= 0 /\ comp[p[2]] >= 0

\* {canonical: a + b, ...} with the remaining composition identical
Folded(comp, p) ==
    [k \in (DOMAIN comp \ {p[1], p[2]}) \cup {COMPONENT_ALIASES[p[1]]} |->
        IF k = COMPONENT_ALIASES[p[1]] THEN comp[p[1]] + comp[p[2]]
        ELSE comp[k]]

\* mn_prime of a call that passes validation
MnPrimeFor(comp) ==
    LET norm == _normalize_composition(comp)
    IN  MnPrime(GroupBSimplified(GroupA(norm), GroupB(norm)), GroupC(norm))

\* C4: alias folding.  For fractions a, b >= 0 the call with
\* {iC4H10: a, nC4H10: b, ...} ends as the call with {C4H10: a + b, ...} and
\* the same remaining composition does (same outcome, same base term, same
\* inert correction); likewise iC5H12/nC5H12 into C5H12 and C6+/hexanes+
\* into C6H14.
AliasFolding ==
    Done =>
        \A p \in AliasPairs :
            FoldablePair(composition, p) =>
                LET folded == Folded(composition, p)
                IN  /\ outcome = estimate_methane_number(folded)
                    /\ normalized = _normalize_composition(folded)
                    /\ outcome.kind # "ValueError" =>
                        /\ mn_prime = MnPrimeFor(folded)
                        /\ mn_inerts = _correct_for_inerts(folded)
                        /\ NitrogenFree(composition) = NitrogenFree(folded)
                        /\ SumCombustibles(composition)
                               = SumCombustibles(folded)

\* both butane isomers given, in different amounts, in a gas that takes the
\* table term
AliasFoldingWitness ==
    /\ Done
    /\ FoldablePair(composition, << "iC4H10", "nC4H10" >>)
    /\ composition["iC4H10"] > composition["nC4H10"]
    /\ composition["nC4H10"] > 0
    /\ "_get_tmn" \in calls
    /\ normalized["C4H10"] = composition["iC4H10"] + composition["nC4H10"]

\* C5: the call raises ValueError, and returns no number, whenever a
\* fraction of the input is negative, also when the negative fraction stands
\* under an alias next to a positive fraction of the same canonical species.
NegativeFractionRaises ==
    (Done /\ ~ NoNegative(composition)) => outcome.kind = "ValueError"

Without(comp, k) == [x \in DOMAIN comp \ {k} |-> comp[x]]

\* C6: a species that is neither recognized nor ignored, with a positive
\* fraction, is warned about (the warning is not fatal) and left out of
\* every sum, the combustible total of the inert correction included: the
\* call ends as it does for the composition without that species.
UnrecognizedExcluded ==
    Done =>
        \A k \in DOMAIN composition :
            (composition[k] > 0 /\ ~ Recognized(k)
             /\ StdComponent(k) \notin IGNORED_COMPONENTS)
                => /\ outcome.kind # "ValueError" => k \in warned
                   /\ outcome = estimate_methane_number(Without(composition, k))

RecognizedTotal(comp) ==
    SumValues(comp, {k \in DOMAIN comp : Recognized(k)})

\* C7: a non-empty composition whose recognized total is zero (only
\* unrecognized species, only ignored species, only zero fractions) makes
\* the call fail with a validation error instead of returning a number.
ZeroRecognizedTotalRaises ==
    (/\ Done
     /\ DOMAIN composition # {}
     /\ NoNegative(composition)
     /\ RecognizedTotal(composition) = 0)
        => outcome.kind = "ValueError"

\* the species _simplify_composition converts
ConvertedSpecies == {"C4H6", "C4H8", "C5H12", "C6H14", "C7plus"}

AfterReduction == pc \in {"simplified", "mn_prime", "inerts"}

\* C8: heavier species with a positive fraction are converted to butane
\* equivalent before the group-B sum:
\* sum_b = C3H8 + C4H10 + 1.0 (C4H6 + C4H8) + 2.3 C5H12
\*         + 5.3 (C6H14 + C7plus),
\* and a converted species is no key of the grouped fractions any more.
HeavyConvertedToButane ==
    AfterReduction =>
        /\ 10 * sum_b
             = 10 * (Get(normalized, "C3H8", 0) + Get(normalized, "C4H10", 0)
                     + Get(normalized, "C4H6", 0) + Get(normalized, "C4H8", 0))
               + 23 * Get(normalized, "C5H12", 0)
               + 53 * (Get(normalized, "C6H14", 0)
                       + Get(normalized, "C7plus", 0))
        /\ \A k \in ConvertedSpecies :
              Get(normalized, k, 0) > 0
                  => k \notin DOMAIN group_a \cup DOMAIN group_b_simplified
                                 \cup DOMAIN group_c

(***************************************************************************)
(* Properties of the table lookup                                          *)
(***************************************************************************)
\* value lies halfway between the adjacent grid values i and i + 1
Equidistant(value, value_list, i) ==
    Diff(value_list[i], value) = Diff(value_list[i + 1], value)

LowerOnTieAxis(value, value_list, idx) ==
    \A i \in 1 .. Len(value_list) - 1 :
        Equidistant(value, value_list, i)
            => /\ _find_closest_index(value, value_list) = i - 1
               /\ idx = i - 1

Approx(q, n, d) == 2 * Abs(q.num * d - n * q.den) <= q.den

ReferenceReduced ==
    composition = Example1Folded /\ pc \in {"mn_prime", "inerts", "done"}

\* the reduction of {CH4: 0.85, C2H6: 0.06, C3H8: 0.03, C4H10: 0.012,
\* N2: 0.03, CO2: 0.012} with Mnemo_B approximately mb / 1000
ReferenceReduction(mb) ==
    /\ DOMAIN group_b_simplified = {"C3H8", "C4H10"}
    /\ sum_b = 420
    /\ DOMAIN group_c = {"N2", "CO2"}
    /\ sum_c = 420
    /\ mnemo_b.num = 300 * 3 + 120 * 4
    /\ mnemo_b.den = 420
    /\ Approx(mnemo_b, mb, 1000)
    /\ Approx(mnemo_c, 2857, 10000)
    /\ MNEMO_B_VALUES[idx_b + 1] = 30
    /\ MNEMO_C_VALUES[idx_c + 1] = 3
    /\ tmn_value = 928554

\* C10 as stated: group_b sums to 0.042, group_c to 0.042, Mnemo_B =
\* (0.03*3 + 0.012*4) / 0.042 is approximately 3.143, Mnemo_C approximately
\* 0.2857, and the lookup selects the cell B = 3.0, C = 0.3 of value 92.8554.
ReferenceReductionAsStated == ReferenceReduced => ReferenceReduction(3143)

\* C10: the same reduction with Mnemo_B = 0.138 / 0.042, approximately 3.286.
ReferenceReductionAmended == ReferenceReduced => ReferenceReduction(3286)

ReferenceReductionWitness ==
    /\ ReferenceReduced
    /\ "_get_tmn" \in calls
    /\ tmn_value = 928554
    /\ mn_prime = MulMn(420 * 420, 928554)

(***************************************************************************)
(* Properties of _get_tmn outside the grid                                 *)
(***************************************************************************)
\* the query held inside the range of the axis
ClampToAxis(value, value_list) ==
    LET first == value_list[1]
        last == value_list[Len(value_list)]
    IN  IF value.num * GridDen < first * value.den THEN Quot(first, GridDen)
        ELSE IF value.num * GridDen > last * value.den
             THEN Quot(last, GridDen)
             ELSE value

\* the 1-based positions of the grid values no other grid value is closer
\* to the query than
NearestGridPoints(value, value_list) ==
    {i \in 1 .. Len(value_list) :
        \A j \in 1 .. Len(value_list) :
            Diff(value_list[i], value) <= Diff(value_list[j], value)}

OutsideAxis(value, value_list) == ClampToAxis(value, value_list) # value

\* C11: _get_tmn never leaves the 4x11 table and never extrapolates: for
\* every query pair, also one below or above the range of an axis, the
\* indices are inside the table and the result is the table value at the
\* query clamped to [1.0, 4.0] x [0.0, 1.0] and snapped to a nearest grid
\* point.
NoExtrapolation ==
    pc = "looked_up" =>
        /\ idx_b \in 0 .. Len(TMN_TABLE) - 1
        /\ idx_c \in 0 .. Len(TMN_TABLE[1]) - 1
        /\ idx_b + 1 \in NearestGridPoints(
               ClampToAxis(mnemo_b, MNEMO_B_VALUES), MNEMO_B_VALUES)
        /\ idx_c + 1 \in NearestGridPoints(
               ClampToAxis(mnemo_c, MNEMO_C_VALUES), MNEMO_C_VALUES)
        /\ tmn_value = TMN_TABLE[idx_b + 1][idx_c + 1]

\* a query above both axes was answered with the last cell of the table
NoExtrapolationWitness ==
    /\ pc = "looked_up"
    /\ OutsideAxis(mnemo_b, MNEMO_B_VALUES)
    /\ OutsideAxis(mnemo_c, MNEMO_C_VALUES)
    /\ mnemo_b.num > 4 * mnemo_b.den
    /\ mnemo_c.num > mnemo_c.den
    /\ tmn_value = TMN_TABLE[Len(TMN_TABLE)][Len(TMN_TABLE[1])]

(***************************************************************************)
(* Properties of the final combination and of the inert correction         *)
(***************************************************************************)
PassedValidation == Done /\ outcome.kind # "ValueError"

\* C12: a call that passes validation has a combined value
\* mn_prime + MN_inerts - 100.0003; it does not fail on it: it returns that
\* value clamped to [0, 100] and rounded, and it emits the range warning when
\* and only when the combined value is below 0 or above 105.
WarnsAndClamps ==
    PassedValidation =>
        /\ ~ mn_inerts.isNone
        /\ outcome = Returned(Round0(Clamp(Combined(mn_prime, mn_inerts))))
        /\ range_warning = OutsideExpectedRange(Combined(mn_prime, mn_inerts))

\* comp with the fraction of one inert species raised by one step
MoreInert(comp, inert) ==
    [k \in DOMAIN comp \cup {inert} |->
        IF k = inert THEN Get(comp, inert, 0) + FracStep ELSE comp[k]]

\* C13: for a valid composition and the same composition with a larger N2 or
\* CO2 fraction (hydrocarbon fractions unchanged), both calls return a number
\* and the methane number of the second is not greater than that of the first.
MonotoneInInerts ==
    (Done /\ ValidComposition(composition)) =>
        \A inert \in {"N2", "CO2"} :
            LET second == estimate_methane_number(MoreInert(composition, inert))
            IN  /\ outcome.kind = "return"
                /\ second.kind = "return"
                /\ second.value <= outcome.value

(***************************************************************************)
(* Shape of the TMN table                                                  *)
(***************************************************************************)
\* C14: the TMN table is non-increasing along each axis: from the cell a
\* lookup selects, no cell further along the Mnemo_C axis of the same row
\* and no cell further along the Mnemo_B axis of the same column holds a
\* larger value.
TableNonIncreasing ==
    pc = "looked_up" =>
        /\ \A j \in idx_c + 1 .. Len(TMN_TABLE[1]) - 1 :
               TMN_TABLE[idx_b + 1][j + 1] <= tmn_value
        /\ \A i \in idx_b + 1 .. Len(TMN_TABLE) - 1 :
               TMN_TABLE[i + 1][idx_c + 1] <= tmn_value

(***************************************************************************)
(* Python floats: IEEE-754 binary64, round to nearest, ties to even        *)
(*                                                                         *)
(* A natural number is the sequence of its digits to the base 2^14, lowest *)
(* first, without leading zeros (<< >> is 0).  A float is [m, e], the      *)
(* value m * 2^e with m of exactly Precision binary digits, or m = << >>   *)
(* for 0.0.  Only non-negative values far from overflow and underflow      *)
(* occur.                                                                  *)
(***************************************************************************)
Precision == 53

Base == 2 ^ 14

RECURSIVE BitLenOf(_)
BitLenOf(n) == IF n = 0 THEN 0 ELSE 1 + BitLenOf(n \div 2)

DigitBits == BitLenOf(Base) - 1

RECURSIVE DigitsOf(_)
DigitsOf(n) == IF n = 0 THEN << >> ELSE << n % Base >> \o DigitsOf(n \div Base)

DigitAt(a, i) == IF i >= 1 /\ i <= Len(a) THEN a[i] ELSE 0

\* a without its leading zero digits
RECURSIVE Trim(_)
Trim(a) ==
    IF Len(a) = 0 THEN << >>
    ELSE IF a[Len(a)] # 0 THEN a ELSE Trim(SubSeq(a, 1, Len(a) - 1))

RECURSIVE AddFrom(_, _, _, _)
AddFrom(a, b, i, carry) ==
    IF i > Len(a) /\ i > Len(b)
    THEN IF carry = 0 THEN << >> ELSE << carry >>
    ELSE LET s == DigitAt(a, i) + DigitAt(b, i) + carry
         IN  << s % Base >> \o AddFrom(a, b, i + 1, s \div Base)

AddNat(a, b) == AddFrom(a, b, 1, 0)

RECURSIVE SubFrom(_, _, _, _)
SubFrom(a, b, i, borrow) ==
    IF i > Len(a) THEN << >>
    ELSE LET d == DigitAt(a, i) - DigitAt(b, i) - borrow
         IN  << (d + Base) % Base >>
             \o SubFrom(a, b, i + 1, IF d < 0 THEN 1 ELSE 0)

\* a - b for a >= b
SubNat(a, b) == Trim(SubFrom(a, b, 1, 0))

\* a < b for two numbers of one length, decided from digit i downwards
RECURSIVE LessFrom(_, _, _)
LessFrom(a, b, i) ==
    IF i = 0 THEN FALSE
    ELSE IF a[i] # b[i] THEN a[i] < b[i] ELSE LessFrom(a, b, i - 1)

LessNat(a, b) ==
    IF Len(a) # Len(b) THEN Len(a) < Len(b) ELSE LessFrom(a, b, Len(a))

\* the sum of the products a[i] * b[j] that fall on digit k
RECURSIVE ColumnFrom(_, _, _, _)
ColumnFrom(a, b, k, i) ==
    IF i > Len(a) THEN 0
    ELSE a[i] * DigitAt(b, k + 1 - i) + ColumnFrom(a, b, k, i + 1)

RECURSIVE MulFrom(_, _, _, _)
MulFrom(a, b, k, carry) ==
    IF k > Len(a) + Len(b) THEN << >>
    ELSE LET s == ColumnFrom(a, b, k, 1) + carry
         IN  << s % Base >> \o MulFrom(a, b, k + 1, s \div Base)

\* a * b for numbers of at most four digits each
MulNat(a, b) == Trim(MulFrom(a, b, 1, 0))

\* the number of binary digits of a
BitLen(a) ==
    IF Len(a) = 0 THEN 0
    ELSE DigitBits * (Len(a) - 1) + BitLenOf(a[Len(a)])

\* binary digit i of a, the lowest being digit 1
Bit(a, i) ==
    (DigitAt(a, (i - 1) \div DigitBits + 1) \div 2 ^ ((i - 1) % DigitBits)) % 2

\* a \div 2^k
ShiftRight(a, k) ==
    LET q == k \div DigitBits
        r == k % DigitBits
    IN  IF Len(a) <= q THEN << >>
        ELSE Trim([i \in 1 .. Len(a) - q |->
                      a[i + q] \div 2 ^ r
                      + (DigitAt(a, i + q + 1) % 2 ^ r) * 2 ^ (DigitBits - r)])

\* a * 2^k
ShiftLeft(a, k) ==
    LET q == k \div DigitBits
        r == k % DigitBits
    IN  IF Len(a) = 0 THEN << >>
        ELSE Trim([i \in 1 .. Len(a) + q + 1 |->
                      (DigitAt(a, i - q) % 2 ^ (DigitBits - r)) * 2 ^ r
                      + DigitAt(a, i - q - 1) \div 2 ^ (DigitBits - r)])

\* one step of the long division by b: the next binary digit of the quotient
DivStep(st, b) ==
    LET fits == ~ LessNat(st.r, b)
    IN  [q |-> AddFrom(st.q, st.q, 1, IF fits THEN 1 ELSE 0),
         r |-> IF fits THEN SubNat(st.r, b) ELSE st.r]

\* n more binary digits of the quotient; nothing but zeros follow once no
\* remainder is left
RECURSIVE DivLoop(_, _, _)
DivLoop(st, b, n) ==
    IF n = 0 THEN st
    ELSE IF Len(st.r) = 0 THEN [q |-> ShiftLeft(st.q, n), r |-> << >>]
         ELSE DivLoop(DivStep([q |-> st.q, r |-> AddNat(st.r, st.r)], b),
                      b, n - 1)

Zero == [m |-> << >>, e |-> 0]

\* m * 2^e for m # 0, rounded to Precision binary digits, ties to the even
\* neighbour
RoundToPrecision(m, e) ==
    LET drop == BitLen(m) - Precision
    IN  IF drop <= 0 THEN [m |-> ShiftLeft(m, 0 - drop), e |-> e + drop]
        ELSE LET kept == ShiftRight(m, drop)
                 half == Bit(m, drop) = 1
                 sticky == \E i \in 1 .. drop - 1 : Bit(m, i) = 1
                 up == half /\ (sticky \/ Bit(kept, 1) = 1)
                 rounded == IF up THEN AddNat(kept, << 1 >>) ELSE kept
             IN  IF BitLen(rounded) > Precision
                 THEN [m |-> ShiftRight(rounded, 1), e |-> e + drop + 1]
                 ELSE [m |-> rounded, e |-> e + drop]

\* x * y
FMul(x, y) ==
    IF Len(x.m) = 0 \/ Len(y.m) = 0 THEN Zero
    ELSE RoundToPrecision(MulNat(x.m, y.m), x.e + y.e)

\* x / y for y # 0: Precision + 3 binary digits of the quotient of the two
\* m (the first may be 0), and one digit below them that tells whether a
\* remainder was left
FDiv(x, y) ==
    IF Len(x.m) = 0 THEN Zero
    ELSE LET n == Precision + 2
             dm == DivLoop(DivStep([q |-> << >>, r |-> x.m], y.m), y.m, n)
         IN  RoundToPrecision(
                 AddFrom(dm.q, dm.q, 1, IF Len(dm.r) = 0 THEN 0 ELSE 1),
                 x.e - y.e - n - 1)

FloatOfNat(n) == IF n = 0 THEN Zero ELSE RoundToPrecision(DigitsOf(n), 0)

\* the float a decimal literal n / 10^digits denotes
Literal(n, digits) == FDiv(FloatOfNat(n), FloatOfNat(10 ^ digits))

(***************************************************************************)
(* calc/heating_value.py: unit conversions                                 *)
(***************************************************************************)
Float_3_6 == Literal(36, 1)

\* H * 3.6 in place of H / 3.6
MJm3_to_kWhm3_multiplying(H) == FMul(H, Float_3_6)

MJm3_to_kWhm3(H) == FDiv(H, Float_3_6)

kWhm3_to_MJm3(H) == FMul(H, Float_3_6)

MaxTenths == 120

\* the heating values 0.0, 0.1, 0.2, ... as Python reads them
HeatingValues == {Literal(n, 1) : n \in 0 .. MaxTenths}

InitConversion ==
    /\ pc = "given"
    /\ args \in {<< H >> : H \in HeatingValues}
    /\ result = Pending
    /\ composition = EmptyDict
    /\ mnemo_b = Quot(0, 1)
    /\ mnemo_c = Quot(0, 1)
    /\ Locals0
    /\ NoCallers

\* kWhm3_to_MJm3 on the given value, or on what MJm3_to_kWhm3 made of it
KWhToMJ ==
    /\ pc \in {"given", "as_kWhm3"}
    /\ result' = Returned(kWhm3_to_MJm3(IF pc = "given" THEN args[1]
                                        ELSE result.value))
    /\ pc' = IF pc = "given" THEN "as_MJm3" ELSE "back_as_MJm3"
    /\ UNCHANGED << objects, frames,
                    args, composition, normalized, group_a, group_b, group_c,
                    warned, group_b_simplified, sum_b, sum_c, mnemo_b,
                    mnemo_c, idx_b, idx_c, tmn_value, mn_prime, mn_inerts,
                    calls, range_warning, outcome >>

\* MJm3_to_kWhm3 on the given value, or on what kWhm3_to_MJm3 made of it
MJToKWh ==
    /\ pc \in {"given", "as_MJm3"}
    /\ result' = Returned(MJm3_to_kWhm3(IF pc = "given" THEN args[1]
                                        ELSE result.value))
    /\ pc' = IF pc = "given" THEN "as_kWhm3" ELSE "back_as_kWhm3"
    /\ UNCHANGED << objects, frames,
                    args, composition, normalized, group_a, group_b, group_c,
                    warned, group_b_simplified, sum_b, sum_c, mnemo_b,
                    mnemo_c, idx_b, idx_c, tmn_value, mn_prime, mn_inerts,
                    calls, range_warning, outcome >>

NextConversion == KWhToMJ \/ MJToKWh

SpecConversion == InitConversion /\ [][NextConversion]_vars

RoundTripDone == pc \in {"back_as_kWhm3", "back_as_MJm3"}

\* C15 as stated: converting a value to the other unit and back gives the
\* value itself, in both orders.
RoundTripExact == RoundTripDone => result.value = args[1]

\* |z - x| is at most one unit in the last place of x
WithinOneUlp(z, x) ==
    IF Len(x.m) = 0 \/ Len(z.m) = 0 THEN z = x
    ELSE LET lo == Min(z.e, x.e)
             zm == ShiftLeft(z.m, z.e - lo)
             xm == ShiftLeft(x.m, x.e - lo)
             distance == IF LessNat(zm, xm) THEN SubNat(xm, zm)
                         ELSE SubNat(zm, xm)
         IN  /\ Abs(z.e - x.e) <= 1
             /\ ~ LessNat(ShiftLeft(<< 1 >>, x.e - lo), distance)

\* C15, amended: converting a value to the other unit and back gives the
\* value up to the rounding of the two float operations: the result is at
\* most one unit in the last place away from the value, in both orders.
RoundTripWithinOneUlp == RoundTripDone => WithinOneUlp(result.value, args[1])

\* 10.5 kWh/m3 comes back as its upper neighbour 10.500000000000002
RoundTripWitness ==
    /\ pc = "back_as_kWhm3"
    /\ args[1] = Literal(105, 1)
    /\ result.value # args[1]
    /\ result.value.e = args[1].e
    /\ result.value.m = AddNat(args[1].m, << 1 >>)

(***************************************************************************)
(* calc/wobbe.py                                                           *)
(***************************************************************************)
\* one step of the square root of n, binary digit i of the root downwards:
\* root and remainder so far
RECURSIVE SqrtLoop(_, _, _)
SqrtLoop(st, n, i) ==
    IF i = 0 THEN st
    ELSE LET rem == AddNat(ShiftLeft(st.rem, 2),
                           DigitsOf(2 * Bit(n, 2 * i) + Bit(n, 2 * i - 1)))
             trial == AddFrom(ShiftLeft(st.root, 2), << >>, 1, 1)
         IN  IF LessNat(rem, trial)
             THEN SqrtLoop([root |-> ShiftLeft(st.root, 1), rem |-> rem],
                           n, i - 1)
             ELSE SqrtLoop([root |-> AddFrom(st.root, st.root, 1, 1),
                            rem |-> SubNat(rem, trial)], n, i - 1)

\* x ** 0.5 for x >= 0: Precision + 2 binary digits of the root, and one
\* digit below them that tells whether a remainder was left
Sqrt(x) ==
    IF Len(x.m) = 0 THEN Zero
    ELSE LET s == Precision + 3 + ((x.e + Precision + 3) % 2)
             n == ShiftLeft(x.m, s)
             st == SqrtLoop([root |-> << >>, rem |-> << >>], n,
                            Precision + 2)
         IN  RoundToPrecision(
                 AddFrom(st.root, st.root, 1, IF Len(st.rem) = 0 THEN 0 ELSE 1),
                 (x.e - s) \div 2 - 1)

\* a float with a sign: relative_density may be negative
Signed(neg, x) == [neg |-> neg, abs |-> x]

NotPositive(d) == d.neg \/ Len(d.abs.m) = 0

\* HHV / relative_density in place of HHV / sqrt_d
wobbe_index_without_root(HHV, LHV, relative_density) ==
    IF NotPositive(relative_density) THEN Raised("ValueError")
    ELSE Returned(<< FDiv(HHV, relative_density.abs),
                     FDiv(LHV, relative_density.abs) >>)

wobbe_index(HHV, LHV, relative_density) ==
    IF NotPositive(relative_density) THEN Raised("ValueError")
    ELSE LET sqrt_d == Sqrt(relative_density.abs)
             Wg == FDiv(HHV, sqrt_d)
             Wd == FDiv(LHV, sqrt_d)
         IN  Returned(<< Wg, Wd >>)

MaxHundredths == 70

\* the relative densities -0.70 .. 0.70 in hundredths, -0.0 among them
Densities ==
    {Signed(neg, Literal(n, 2)) : neg \in BOOLEAN, n \in 0 .. MaxHundredths}

\* (HHV, LHV) of a lean and of a rich gas, MJ/m3
HeatingPairs ==
    {<< Literal(383, 1), Literal(345, 1) >>,
     << Literal(420, 1), Literal(380, 1) >>}

InitWobbe ==
    /\ pc = "wobbe_index"
    /\ args \in {<< H[1], H[2], d >> : H \in HeatingPairs, d \in Densities}
    /\ result = Pending
    /\ composition = EmptyDict
    /\ mnemo_b = Quot(0, 1)
    /\ mnemo_c = Quot(0, 1)
    /\ Locals0
    /\ NoCallers

WobbeIndex ==
    /\ pc = "wobbe_index"
    /\ result' = wobbe_index(args[1], args[2], args[3])
    /\ pc' = "wobbe_done"
    /\ UNCHANGED << objects, frames,
                    args, composition, normalized, group_a, group_b, group_c,
                    warned, group_b_simplified, sum_b, sum_c, mnemo_b,
                    mnemo_c, idx_b, idx_c, tmn_value, mn_prime, mn_inerts,
                    calls, range_warning, outcome >>

NextWobbe == WobbeIndex

SpecWobbe == InitWobbe /\ [][NextWobbe]_vars

\* r is the float nearest to the square root of x > 0:
\* (r - ulp/2)^2 <= x <= (r + ulp/2)^2
IsNearestRoot(r, x) ==
    LET below == SubNat(AddNat(r.m, r.m), << 1 >>)
        above == AddFrom(r.m, r.m, 1, 1)
        lo == Min(2 * r.e - 2, x.e)
        xm == ShiftLeft(x.m, x.e - lo)
    IN  /\ ~ LessNat(xm, ShiftLeft(MulNat(below, below), 2 * r.e - 2 - lo))
        /\ ~ LessNat(ShiftLeft(MulNat(above, above), 2 * r.e - 2 - lo), xm)

\* C16: wobbe_index raises ValueError, and returns nothing, whenever
\* relative_density <= 0; for relative_density > 0 it returns the pair
\* (HHV / sqrt(d), LHV / sqrt(d)), sqrt(d) being the float nearest to the
\* square root of relative_density.
WobbeIndexGuarded ==
    pc = "wobbe_done" =>
        LET HHV == args[1]
            LHV == args[2]
            d == args[3]
        IN  IF d.neg \/ d.abs = Zero
            THEN result = Raised("ValueError")
            ELSE LET r == Sqrt(d.abs)
                 IN  /\ IsNearestRoot(r, d.abs)
                     /\ result.kind = "return"
                     /\ result.value = << FDiv(HHV, r), FDiv(LHV, r) >>

\* relative density 0.0 is refused, 0.25 gives (HHV / 0.5, LHV / 0.5)
WobbeRefusedWitness ==
    /\ pc = "wobbe_done"
    /\ args[3] = Signed(FALSE, Zero)
    /\ result.kind = "ValueError"

WobbeIndexWitness ==
    /\ pc = "wobbe_done"
    /\ args[3] = Signed(FALSE, Literal(25, 2))
    /\ result.kind = "return"
    /\ result.value[1] = FMul(args[1], FloatOfNat(2))
    /\ result.value[2] = FMul(args[2], FloatOfNat(2))
    /\ result.value[1] # result.value[2]

(***************************************************************************)
(* Properties of _correct_for_inerts and of the base term                  *)
(***************************************************************************)
\* C17: _correct_for_inerts works on the caller's composition: where its
\* nitrogen-free total (combustibles + CO2) exceeds 1e-9 it has called the
\* A20 polynomial and holds a number, the polynomial's value at
\* x = 100 * combustibles / (total - N2), y = 100 * CO2 / (total - N2);
\* where the total does not exceed 1e-9 it holds 100.0.
InertCorrectionIsNumber ==
    (pc \in {"inerts", "done"} /\ "_correct_for_inerts" \in calls) =>
        IF ExceedsEpsilon(NitrogenFree(composition))
        THEN /\ "_calculate_mn_a20" \in calls
             /\ ~ mn_inerts.isNone
        ELSE mn_inerts = Float(100 * MnDen)

BaseTermSet ==
    pc \in {"mn_prime", "inerts", "done"} /\ "_simplify_composition" \in calls

FullTableProduct ==
    (BaseTermSet /\ ExceedsEpsilon(sum_b) /\ ExceedsEpsilon(sum_c)) =>
        /\ "_get_tmn" \in calls
        /\ mnemo_b.den = sum_b
        /\ mnemo_b.num
               = SumWeighted(group_b_simplified, CARBON_ATOMS,
                             DOMAIN group_b_simplified)
        /\ mnemo_c.den = sum_c
        /\ mnemo_c.num = SumWeighted(group_c, CARBON_ATOMS, DOMAIN group_c)
        /\ tmn_value = _get_tmn(mnemo_b, mnemo_c)
        /\ mn_prime = MulMn(sum_b * sum_c, tmn_value)

\* two species in each group, a table value below 100
FullTableWitness ==
    /\ pc = "mn_prime"
    /\ Cardinality(DOMAIN group_b_simplified) >= 2
    /\ Cardinality(DOMAIN group_c) >= 2
    /\ tmn_value < 100 * MnDen
    /\ mn_prime = MulMn(sum_b * sum_c, tmn_value)

(***************************************************************************)
(* calc/mn.py: the estimator without alias folding, reduction and clamp    *)
(***************************************************************************)
GROUP_A_mn == {"CH4", "C2H6"}

GROUP_B_mn == {"C3H8", "iC4H10", "nC4H10"}

GROUP_C_COMPONENTS_mn ==
    {"iC5H12", "nC5H12", "C6H14", "C7plus", "N2", "CO2", "H2S", "H2O"}

ALLOWED_COMPONENTS_mn == GROUP_A_mn \cup GROUP_B_mn \cup GROUP_C_COMPONENTS_mn

CARBON_ATOMS_mn ==
    ("CH4" :> 1) @@ ("C2H6" :> 2) @@ ("C3H8" :> 3) @@
    ("iC4H10" :> 4) @@ ("nC4H10" :> 4) @@
    ("iC5H12" :> 5) @@ ("nC5H12" :> 5) @@
    ("C6H14" :> 6) @@ ("C7plus" :> 7) @@
    ("N2" :> 0) @@ ("CO2" :> 1) @@ ("H2S" :> 0) @@ ("H2O" :> 0)

\* the value of the A20 polynomial at (x_ch4, y_co2): a float for every pair
\* of floats, kept as the term it is computed from
_calculate_mn_a20_mn(x_ch4, y_co2) == << x_ch4, y_co2 >>

\* an exception with the cause its message names
RaisedWith(kind, cause) == [kind |-> kind, value |-> cause]

NegativeFraction == "must not be negative"

MissingGroups == "must contain components from both Group B and Group C"

\* the validation loop without `if mole_fraction == 0.0: continue`
Considered_mn_keeping_zero(comp) == DOMAIN comp

\* components that pass the zero test of the validation loop
Considered_mn(comp) == {c \in DOMAIN comp : comp[c] # 0}

UnrecognizedComponents_mn(comp) ==
    {c \in Considered_mn(comp) : c \notin ALLOWED_COMPONENTS_mn}

Grouped_mn(comp, members) ==
    [c \in {x \in Considered_mn(comp) : x \in members} |-> comp[c]]

\* `group_a and len(group_a) == 1`, whatever the species
AnySingleSpeciesFallback(ga) == Cardinality(DOMAIN ga) = 1

\* `group_a and len(group_a) == 1 and "CH4" in group_a`
PureMethaneFallback(ga) == DOMAIN ga = {"CH4"}

MnemoOf_mn(g) == Quot(SumWeighted(g, CARBON_ATOMS_mn, DOMAIN g), SumOf(g))

MnPrime_mn(gb, gc) ==
    TotalMnLoop((DOMAIN gb) \X (DOMAIN gc), Mn(0, 0), gb, gc,
                MnemoOf_mn(gb), MnemoOf_mn(gc))

\* the number mp + MN_inerts - 100.0003 where a20 is the term of MN_inerts,
\* the number mp where a20 is << >>
Number(mp, a20) == [mn_prime |-> mp, a20 |-> a20]

\* step 4: the correction for inerts, and round(mn, 2)
Corrected_mn(comp, ga, gb, mp) ==
    LET sum_combustibles == SumOf(ga) + SumOf(gb)
        co2_fraction == Get(comp, "CO2", 0)
        total_for_a20 == sum_combustibles + co2_fraction
    IN  IF total_for_a20 > 0
        THEN Number(mp, _calculate_mn_a20_mn(
                            Quot(sum_combustibles * 100, total_for_a20),
                            Quot(co2_fraction * 100, total_for_a20)))
        ELSE Number(mp, << >>)

\* the whole call, as the outcome it ends in
estimate_methane_number_mn(comp) ==
    LET ga == Grouped_mn(comp, GROUP_A_mn)
        gb == Grouped_mn(comp, GROUP_B_mn)
        gc == Grouped_mn(comp, GROUP_C_COMPONENTS_mn)
    IN  IF NegativeComponents(comp) # {}
        THEN RaisedWith("ValueError", NegativeFraction)
        ELSE IF DOMAIN gb = {} \/ DOMAIN gc = {}
        THEN IF PureMethaneFallback(ga)
             THEN Returned(Number(Mn(100 * MnDen, 0), << >>))
             ELSE RaisedWith("ValueError", MissingGroups)
        ELSE IF SumOf(gb) <= 0 \/ SumOf(gc) <= 0
        THEN RaisedWith("ValueError", MissingGroups)
        ELSE Returned(Corrected_mn(comp, ga, gb, MnPrime_mn(gb, gc)))

InitStrict ==
    /\ pc = "strict_start"
    /\ composition \in Compositions
    /\ mnemo_b = Quot(0, 1)
    /\ mnemo_c = Quot(0, 1)
    /\ Locals0
    /\ NoCallers
    /\ NoCall

\* step 1, a negative fraction: the warnings emitted before the raise are
\* those of the unrecognized components the mapping lists first
StrictGroupRaise ==
    /\ pc = "strict_start"
    /\ NegativeComponents(composition) # {}
    /\ warned' \in SUBSET UnrecognizedComponents_mn(composition)
    /\ outcome' = RaisedWith("ValueError", NegativeFraction)
    /\ pc' = "strict_done"
    /\ UNCHANGED << objects, frames,
                    args, result, composition, normalized, group_a, group_b,
                    group_c, group_b_simplified, sum_b, sum_c, mnemo_b,
                    mnemo_c, idx_b, idx_c, tmn_value, mn_prime, mn_inerts,
                    calls, range_warning >>

\* step 1, no negative fraction
StrictGroup ==
    /\ pc = "strict_start"
    /\ NegativeComponents(composition) = {}
    /\ group_a' = Grouped_mn(composition, GROUP_A_mn)
    /\ group_b' = Grouped_mn(composition, GROUP_B_mn)
    /\ group_c' = Grouped_mn(composition, GROUP_C_COMPONENTS_mn)
    /\ warned' = UnrecognizedComponents_mn(composition)
    /\ pc' = "strict_grouped"
    /\ UNCHANGED << objects, frames,
                    args, result, composition, normalized,
                    group_b_simplified, sum_b, sum_c, mnemo_b, mnemo_c,
                    idx_b, idx_c, tmn_value, mn_prime, mn_inerts, calls,
                    range_warning, outcome >>

\* a group missing, CH4 alone in group A
StrictFallback ==
    /\ pc = "strict_grouped"
    /\ DOMAIN group_b = {} \/ DOMAIN group_c = {}
    /\ PureMethaneFallback(group_a)
    /\ outcome' = Returned(Number(Mn(100 * MnDen, 0), << >>))
    /\ pc' = "strict_done"
    /\ UNCHANGED << objects, frames,
                    args, result, composition, normalized, group_a, group_b,
                    group_c, warned, group_b_simplified, sum_b, sum_c,
                    mnemo_b, mnemo_c, idx_b, idx_c, tmn_value, mn_prime,
                    mn_inerts, calls, range_warning >>

\* a group missing, no fallback
StrictMissingGroup ==
    /\ pc = "strict_grouped"
    /\ DOMAIN group_b = {} \/ DOMAIN group_c = {}
    /\ ~ PureMethaneFallback(group_a)
    /\ outcome' = RaisedWith("ValueError", MissingGroups)
    /\ pc' = "strict_done"
    /\ UNCHANGED << objects, frames,
                    args, result, composition, normalized, group_a, group_b,
                    group_c, warned, group_b_simplified, sum_b, sum_c,
                    mnemo_b, mnemo_c, idx_b, idx_c, tmn_value, mn_prime,
                    mn_inerts, calls, range_warning >>

\* steps 2 and 3, both groups populated (their sums are then positive)
StrictTableTerm ==
    /\ pc = "strict_grouped"
    /\ DOMAIN group_b # {} /\ DOMAIN group_c # {}
    /\ sum_b' = SumOf(group_b)
    /\ sum_c' = SumOf(group_c)
    /\ mnemo_b' = MnemoOf_mn(group_b)
    /\ mnemo_c' = MnemoOf_mn(group_c)
    /\ idx_b' = TmnIndexB(mnemo_b')
    /\ idx_c' = TmnIndexC(mnemo_c')
    /\ tmn_value' = _get_tmn(mnemo_b', mnemo_c')
    /\ mn_prime' = MnPrime_mn(group_b, group_c)
    /\ calls' = calls \cup {"_get_tmn"}
    /\ pc' = "strict_mn_prime"
    /\ UNCHANGED << objects, frames,
                    args, result, composition, normalized, group_a, group_b,
                    group_c, warned, group_b_simplified, mn_inerts,
                    range_warning, outcome >>

\* step 4 and the return
StrictCorrect ==
    /\ pc = "strict_mn_prime"
    /\ outcome' = Returned(Corrected_mn(composition, group_a, group_b,
                                        mn_prime))
    /\ calls' = calls \cup {"_calculate_mn_a20"}
    /\ pc' = "strict_done"
    /\ UNCHANGED << objects, frames,
                    args, result, composition, normalized, group_a, group_b,
                    group_c, warned, group_b_simplified, sum_b, sum_c,
                    mnemo_b, mnemo_c, idx_b, idx_c, tmn_value, mn_prime,
                    mn_inerts, range_warning >>

NextStrict ==
    \/ StrictGroupRaise
    \/ StrictGroup
    \/ StrictFallback
    \/ StrictMissingGroup
    \/ StrictTableTerm
    \/ StrictCorrect

SpecStrict == InitStrict /\ [][NextStrict]_vars

(***************************************************************************)
(* Properties of the estimator of calc/mn.py                               *)
(***************************************************************************)
StrictDone == pc = "strict_done"

\* the call ended in a ValueError whose message names the cause
RaisesFor(cause) == outcome.kind = "ValueError" /\ outcome.value = cause

\* the species of a group the composition holds with a positive fraction
Populated(comp, members) == {k \in DOMAIN comp \cap members : comp[k] > 0}

GroupMissing(comp) ==
    \/ Populated(comp, GROUP_B_mn) = {}
    \/ Populated(comp, GROUP_C_COMPONENTS_mn) = {}

\* the pure-methane state: nothing in group B, nothing in group C, and CH4
\* more than 0.99 of group A
PureMethaneComposition(comp) ==
    /\ Populated(comp, GROUP_B_mn) = {}
    /\ Populated(comp, GROUP_C_COMPONENTS_mn) = {}
    /\ "CH4" \in Populated(comp, GROUP_A_mn)
    /\ 100 * comp["CH4"] > 99 * SumValues(comp, Populated(comp, GROUP_A_mn))

\* CH4 is the one species of group A with a positive fraction
MethaneAloneInGroupA(comp) == Populated(comp, GROUP_A_mn) = {"CH4"}

Percent == 100

ScaleFactors == {2, Percent}

\* every fraction multiplied by the common factor k
Scaled(comp, k) == [c \in DOMAIN comp |-> k * comp[c]]

SumsToOne(comp) == SumValues(comp, DOMAIN comp) = FracDen

RECURSIVE Gcd(_, _)
Gcd(a, b) == IF b = 0 THEN a ELSE Gcd(b, a % b)

\* a quotient in lowest terms
Reduced(q) ==
    LET g == Gcd(q.num, q.den)
    IN  Quot(q.num \div g, q.den \div g)

\* the A20 polynomial is evaluated at the same point
SameTerm(a, b) ==
    IF Len(a) = 0 \/ Len(b) = 0 THEN Len(a) = Len(b)
    ELSE Reduced(a[1]) = Reduced(b[1]) /\ Reduced(a[2]) = Reduced(b[2])

\* round(mn, 2): the step between two results, in units of 1 / MnDen
RoundStep == 100

\* Two numbers with the same A20 term round to the same value only if their
\* base terms differ by less than one rounding step.
SameRounded(n1, n2) ==
    /\ SameTerm(n1.a20, n2.a20)
    /\ Abs(n1.mn_prime.hi - n2.mn_prime.hi) <= RoundStep

SameOutcome(o1, o2) ==
    /\ o1.kind = o2.kind
    /\ o1.kind = "return" => SameRounded(o1.value, o2.value)
    /\ o1.kind # "return" => o1.value = o2.value

\* C21: a composition whose fractions sum to 1.0 and the same composition
\* with every fraction multiplied by a common positive factor (2, or 100
\* for percent) get the same methane number from estimate_methane_number.
ScaleTolerant ==
    (StrictDone /\ SumsToOne(composition)) =>
        \A k \in ScaleFactors :
            SameOutcome(outcome,
                        estimate_methane_number_mn(Scaled(composition, k)))

(***************************************************************************)
(* calc/gas_quality_checks.py: check_range                                 *)
(***************************************************************************)
\* limits.get(key, None)
Limit(limits, key) ==
    IF key \in DOMAIN limits THEN Float(limits[key]) ELSE NoneValue

\* the two tests as if / elif: LOW wins when both fire
check_range_first_match(name, value, limits) ==
    LET vmin == Limit(limits, "min")
        vmax == Limit(limits, "max")
        status == IF ~ vmin.isNone /\ value < vmin.val THEN "LOW"
                  ELSE IF ~ vmax.isNone /\ value > vmax.val THEN "HIGH"
                  ELSE "OK"
    IN  [name |-> name, value |-> value, min |-> vmin, max |-> vmax,
         status |-> status]

check_range(name, value, limits) ==
    LET vmin == Limit(limits, "min")
        vmax == Limit(limits, "max")
        low == IF ~ vmin.isNone /\ value < vmin.val THEN "LOW" ELSE "OK"
        status == IF ~ vmax.isNone /\ value > vmax.val THEN "HIGH" ELSE low
    IN  [name |-> name, value |-> value, min |-> vmin, max |-> vmax,
         status |-> status]

MaxLevel == 4           \* values and limits are the whole numbers 0 .. MaxLevel

Levels == 0 .. MaxLevel

\* two of the names the check_* functions pass
CheckedNames == {"CO2_mol_pct", "methane_number"}

\* limits with "min", "max", both or neither
LimitDicts == UNION {[S -> Levels] : S \in SUBSET {"min", "max"}}

InitCheckRange ==
    /\ pc = "check_range"
    /\ args \in CheckedNames \X Levels \X LimitDicts
    /\ result = Pending
    /\ composition = EmptyDict
    /\ mnemo_b = Quot(0, 1)
    /\ mnemo_c = Quot(0, 1)
    /\ Locals0
    /\ NoCallers

CheckRange ==
    /\ pc = "check_range"
    /\ result' = Returned(check_range(args[1], args[2], args[3]))
    /\ pc' = "range_checked"
    /\ UNCHANGED << objects, frames,
                    args, composition, normalized, group_a, group_b, group_c,
                    warned, group_b_simplified, sum_b, sum_c, mnemo_b,
                    mnemo_c, idx_b, idx_c, tmn_value, mn_prime, mn_inerts,
                    calls, range_warning, outcome >>

NextCheckRange == CheckRange

SpecCheckRange == InitCheckRange /\ [][NextCheckRange]_vars

AtLeastMin(value, limits) == "min" \notin DOMAIN limits \/ value >= limits["min"]

AtMostMax(value, limits) == "max" \notin DOMAIN limits \/ value <= limits["max"]

\* C23: check_range returns OK exactly when the value is at least min (or
\* min is absent) and at most max (or max is absent); HIGH whenever max is
\* present and the value exceeds it, also when the value is below min; LOW
\* when the value is below min and not above max; and the record echoes
\* name, value, min and max.
CheckRangeStatus ==
    pc = "range_checked" =>
        LET value == args[2]
            limits == args[3]
            r == result.value
        IN  /\ result.kind = "return"
            /\ r.status = "OK"
                   <=> (AtLeastMin(value, limits) /\ AtMostMax(value, limits))
            /\ ~ AtMostMax(value, limits) => r.status = "HIGH"
            /\ (~ AtLeastMin(value, limits) /\ AtMostMax(value, limits))
                   => r.status = "LOW"
            /\ r.name = args[1]
            /\ r.value = value
            /\ r.min = Limit(limits, "min")
            /\ r.max = Limit(limits, "max")

\* a value below min and above max at once is reported HIGH
CheckRangeWitness ==
    /\ pc = "range_checked"
    /\ "min" \in DOMAIN args[3]
    /\ "max" \in DOMAIN args[3]
    /\ args[2] < args[3]["min"]
    /\ args[2] > args[3]["max"]
    /\ result.value.status = "HIGH"

A20_COEFFICIENTS ==
    << << "2.9917430E+02", "-1.5119580E+01", "-3.1156360E-01",
          "7.6359480E-01", "4.5480690E-02", "1.1230410E-02" >>,
       << "-2.3762630E-02", "-7.1562940E-04", "6.5557090E-04",
          "-2.1468550E-03", "4.3554940E-04", "3.8606680E-06" >>,
       << "1.3816990E-06", "-7.9339020E-06", "6.6993640E-05",
          "-4.6077260E-06", "2.6105700E-08", "-6.1439140E-11" >>,
       << "-8.3693870E-07", "3.9280730E-09" >> >>

\* the module-level names bound to sets, dicts and lists
ModuleTables ==
    ("GROUP_A" :> GROUP_A) @@ ("GROUP_B" :> GROUP_B) @@
    ("GROUP_C_COMPONENTS" :> GROUP_C_COMPONENTS) @@
    ("ALLOWED_COMPONENTS" :> ALLOWED_COMPONENTS) @@
    ("IGNORED_COMPONENTS" :> IGNORED_COMPONENTS) @@
    ("COMPONENT_ALIASES" :> COMPONENT_ALIASES) @@
    ("CARBON_ATOMS" :> CARBON_ATOMS) @@
    ("TMN_TABLE" :> TMN_TABLE) @@
    ("MNEMO_B_VALUES" :> MNEMO_B_VALUES) @@
    ("MNEMO_C_VALUES" :> MNEMO_C_VALUES) @@
    ("A20_COEFFICIENTS" :> A20_COEFFICIENTS)

Module == "module"

Callers == {"first", "second"}

\* the dicts one call creates
CallDicts ==
    {"normalized", "group_a", "group_b", "group_c", "all_combustibles",
     "simplified", "group_b_simplified"}

MaxCalls == 2           \* calls a caller makes with its mapping

\* the mappings the callers pass: the examples of the docstring, the empty
\* mapping, pure methane, nitrogen alone, and a mapping with a negative
\* fraction
CallerCompositions ==
    {EmptyDict, PureMethane, Example1, Example2, ("N2" :> FracStep),
     ("CH4" :> FracDen) @@ (Foreign :> -FracStep)}

\* `composition`, the caller's mapping
CompositionDict(c) == << c, "composition" >>

\* _normalize_composition filling the mapping it was given
NormalizedDict_in_place(c) == << c, "composition" >>

\* `normalized = {}`
NormalizedDict(c) == << c, "normalized" >>

\* `simplified = composition.copy()`
SimplifiedDict(c) == << c, "simplified" >>

Write(obj, o, contents) == [obj EXCEPT ![o] = contents]

Frame0(comp) ==
    [pc |-> "idle", given |-> comp, calls_made |-> 0, mn_prime |-> Mn(0, 0),
     mn_inerts |-> Float(0), outcome |-> Pending]

InitCalls ==
    /\ pc = "callers"
    /\ composition = EmptyDict
    /\ mnemo_b = Quot(0, 1)
    /\ mnemo_c = Quot(0, 1)
    /\ Locals0
    /\ NoCall
    /\ \E given \in [Callers -> CallerCompositions] :
        /\ frames = [c \in Callers |-> Frame0(given[c])]
        /\ objects =
              [o \in ({Module} \X DOMAIN ModuleTables)
                     \cup (Callers \X ({"composition"} \cup CallDicts)) |->
                  IF o[1] = Module THEN ModuleTables[o[2]]
                  ELSE IF o[2] = "composition" THEN given[o[1]]
                  ELSE EmptyDict]

Sequential ==
    UNCHANGED << pc, composition, normalized, group_a, group_b, group_c,
                 warned, group_b_simplified, sum_b, sum_c, mnemo_b, mnemo_c,
                 idx_b, idx_c, tmn_value, mn_prime, mn_inerts, calls,
                 range_warning, outcome, args, result >>

\* the caller calls estimate_methane_number(composition): the dicts of the
\* call do not exist yet
Call(c) ==
    /\ frames[c].pc \in {"idle", "done"}
    /\ frames[c].calls_made < MaxCalls
    /\ frames' = [frames EXCEPT ![c] =
                     [Frame0(frames[c].given) EXCEPT
                         !.pc = "start",
                         !.calls_made = frames[c].calls_made + 1]]
    /\ objects' = [o \in DOMAIN objects |->
                      IF o[1] = c /\ o[2] \in CallDicts THEN EmptyDict
                      ELSE objects[o]]
    /\ Sequential

\* step 1
CallNormalize(c) ==
    /\ frames[c].pc = "start"
    /\ objects' = Write(objects, NormalizedDict(c),
                        _normalize_composition(objects[CompositionDict(c)]))
    /\ frames' = [frames EXCEPT ![c].pc = "normalized"]
    /\ Sequential

\* step 2, a negative fraction
CallGroupRaise(c) ==
    /\ frames[c].pc = "normalized"
    /\ NegativeComponents(objects[NormalizedDict(c)]) # {}
    /\ frames' = [frames EXCEPT ![c].pc = "done",
                                ![c].outcome = Raised("ValueError")]
    /\ UNCHANGED objects
    /\ Sequential

\* step 2, no negative fraction
CallGroup(c) ==
    /\ frames[c].pc = "normalized"
    /\ NegativeComponents(objects[NormalizedDict(c)]) = {}
    /\ objects' =
          LET norm == objects[NormalizedDict(c)]
          IN  Write(Write(Write(objects, << c, "group_a" >>, GroupA(norm)),
                          << c, "group_b" >>, GroupB(norm)),
                    << c, "group_c" >>, GroupC(norm))
    /\ frames' = [frames EXCEPT ![c].pc = "grouped"]
    /\ Sequential

\* step 3
CallSimplify(c) ==
    /\ frames[c].pc = "grouped"
    /\ objects' =
          LET all_combustibles ==
                  objects[<< c, "group_a" >>] @@ objects[<< c, "group_b" >>]
              simplified_b == _simplify_composition(all_combustibles)
          IN  Write(Write(Write(objects, << c, "all_combustibles" >>,
                                all_combustibles),
                          SimplifiedDict(c), simplified_b),
                    << c, "group_b_simplified" >>,
                    [k \in DOMAIN simplified_b \cap GROUP_B |->
                        simplified_b[k]])
    /\ frames' = [frames EXCEPT ![c].pc = "simplified"]
    /\ Sequential

\* step 4
CallBaseTerm(c) ==
    /\ frames[c].pc = "simplified"
    /\ frames' = [frames EXCEPT
                     ![c].pc = "mn_prime",
                     ![c].mn_prime =
                         MnPrime(objects[<< c, "group_b_simplified" >>],
                                 objects[<< c, "group_c" >>])]
    /\ UNCHANGED objects
    /\ Sequential

\* step 5: _correct_for_inerts reads the caller's mapping again
CallCorrectForInerts(c) ==
    /\ frames[c].pc = "mn_prime"
    /\ frames' = [frames EXCEPT
                     ![c].pc = "inerts",
                     ![c].mn_inerts =
                         _correct_for_inerts(objects[CompositionDict(c)])]
    /\ UNCHANGED objects
    /\ Sequential

\* the final formula, clamp and round, or the TypeError
CallFinish(c) ==
    /\ frames[c].pc = "inerts"
    /\ frames' = [frames EXCEPT
                     ![c].pc = "done",
                     ![c].outcome = Finish(frames[c].mn_prime,
                                           frames[c].mn_inerts)]
    /\ UNCHANGED objects
    /\ Sequential

NextCalls ==
    \/ \E c \in Callers : Call(c)
    \/ \E c \in Callers : CallNormalize(c)
    \/ \E c \in Callers : CallGroupRaise(c)
    \/ \E c \in Callers : CallGroup(c)
    \/ \E c \in Callers : CallSimplify(c)
    \/ \E c \in Callers : CallBaseTerm(c)
    \/ \E c \in Callers : CallCorrectForInerts(c)
    \/ \E c \in Callers : CallFinish(c)

SpecCalls == InitCalls /\ [][NextCalls]_vars

SameResult(o1, o2) == o1.kind = o2.kind /\ o1.value = o2.value

\* C22: whatever calls have run or are running, returned or raised, the
\* module-level tables hold what the module defines, every caller's mapping
\* holds what the caller put in it, and every finished call has the outcome
\* of the same call running alone.
Purity ==
    /\ \A t \in DOMAIN ModuleTables : objects[<< Module, t >>] = ModuleTables[t]
    /\ \A c \in Callers :
        /\ objects[CompositionDict(c)] = frames[c].given
        /\ frames[c].pc = "done" =>
               SameResult(frames[c].outcome,
                          estimate_methane_number(frames[c].given))

\* the first caller has finished its second call, one that folded aliases,
\* while the second caller is in the middle of a call that will return
PurityWitness ==
    /\ frames["first"].pc = "done"
    /\ frames["first"].calls_made = MaxCalls
    /\ objects[NormalizedDict("first")] # frames["first"].given
    /\ frames["first"].outcome.kind = "TypeError"
    /\ frames["second"].pc = "inerts"
    /\ ~ frames["second"].mn_inerts.isNone

====
